---- MODULE Spec2Model ----
(***************************************************************************)
(* A model of the raknet-rs data plane: the OutgoingGuard write-side state *)
(* machine (guard.rs), the TransferLink that couples the two halves of a   *)
(* connection and the Router of the receive task (link.rs), and the        *)
(* ACK/NACK packer (packet/connected.rs).                                  *)
(*                                                                         *)
(* The writer task and the receive task run concurrently.  A step of the   *)
(* model is what one task does between two points at which the other task  *)
(* can observe or change the shared link: one mutex critical section, one  *)
(* drain of a lock-free queue, one poll of the downstream sink.            *)
(***************************************************************************)
EXTENDS Integers, Sequences, FiniteSets, TLC

(***************************************************************************)
(* Bounds of the model.                                                    *)
(***************************************************************************)
\* peer.mtu, the byte ceiling of one datagram (Peer.mtu is a u16)
Mtu == 11
\* send_buf_cap, the capacity handed to handle_outgoing (cap > 0)
Cap == 1
\* number of frames the user submits through start_send
MaxFrames == 2
\* number of events from outside the writer task: ACK, NACK and unconnected packets
\* handed to the link, and stale scans that find a stale entry
MaxEvents == 2
\* largest seq_num carried by the FrameSets the peer sends
MaxPeerSeq == 3
\* number of FrameSets handed to Router::deliver
MaxDeliver == 3
\* the same three bounds where the closing writer runs beside the router
CloseFrames == 1
ClosePeerSeq == 1
CloseDeliver == 1
\* the calls of Ack::extend_from under study: the largest sequence number in the
\* iterator, the length of the iterator, and the largest mtu argument
MaxSeqNum == 4
MaxIterLen == 4
MaxAckMtu == 15
\* the calls of Ack::read under study: the number of records in the packet
MaxReadRecords == 2
\* the calls of FrameSet::read under study: the bytes in the datagram after the pack id,
\* and the body length its length field declares
MaxWireLen == 28
MaxBodyLen == 2
\* send_buf_cap of a writer that batches frames
FifoCap == 2
\* the server's dispatcher: peer addresses, packets output by the offline handler, and
\* addresses pushed on the drop channel
ServerAddrs == 2
MaxPacks == 4
MaxDropped == 1
\* the flood of ACKs and NACKs starts with at most this many free slots in each queue
FloodSlack == 1

(***************************************************************************)
(* Program constants.                                                      *)
(***************************************************************************)
\* crate::packet::FRAME_SET_HEADER_SIZE: pack id (1) + seq_num (3)
FRAME_SET_HEADER_SIZE == 4
\* link.rs, new_arc: capacity of incoming_ack and incoming_nack
MAX_ACK_BUFFER == 1024
\* u16 arithmetic of extend_from
U16 == 65536
\* Ack::read: MAX_ACKNOWLEDGEMENT_PACKETS
MAX_ACKNOWLEDGEMENT_PACKETS == 8192

\* a Frame: an identity (what the body is), its reliability class and its size()
Frame(i, r, n) == [id |-> i, rel |-> r, size |-> n]

\* the frames the user submits: reliable ones of size() 4, unreliable ones of size() 3;
\* every one fits a frame set (I4), two reliable ones do not fit one set
FrameKinds == {<<TRUE, 4>>, <<FALSE, 3>>}

\* FlushStrategy: the three selectors flush_ack, flush_nack, flush_pack
Strategy(a, n, p) == [ack |-> a, nack |-> n, pack |-> p]

\* FlushStrategy::default(): flush all three classes
DefaultStrategy == Strategy(TRUE, TRUE, TRUE)

\* the strategies a poll's task context may carry
Strategies == {DefaultStrategy, Strategy(TRUE, TRUE, FALSE), Strategy(FALSE, FALSE, TRUE)}

(***************************************************************************)
(* Helpers on sequences and sets.                                          *)
(***************************************************************************)
Min(S) == CHOOSE x \in S : \A y \in S : x <= y

Max(S) == CHOOSE x \in S : \A y \in S : x >= y

Range(s) == {s[i] : i \in DOMAIN s}

\* a push onto the back, the end the packing loop pops from
PushBack(b, f) == Append(b, f)

\* VecDeque::push_front: index 1 is the front, Len is the back
PushFront(b, f) == <<f>> \o b

\* the frames of a list pushed onto the front one after the other
RECURSIVE PushFrontAll(_, _)
PushFrontAll(frames, b) ==
    IF frames = << >> THEN b
    ELSE PushFrontAll(Tail(frames), PushFront(b, Head(frames)))

\* BinaryHeap<Reverse<u24>>::push, the heap kept as its ascending pop order
RECURSIVE HeapPush(_, _)
HeapPush(h, x) ==
    IF h = << >> THEN <<x>>
    ELSE IF x <= Head(h) THEN <<x>> \o h
    ELSE <<Head(h)>> \o HeapPush(Tail(h), x)

\* BTreeSet<Reverse<u24>>::iter().map(|v| v.0): descending u24 order
RECURSIVE NackIter(_)
NackIter(S) ==
    IF S = {} THEN << >>
    ELSE <<Max(S)>> \o NackIter(S \ {Max(S)})

\* a push that gives up on a full queue and keeps what is queued
ForcePushReject(q, x, n) ==
    IF Len(q) >= n THEN q ELSE Append(q, x)

\* incoming_ack, lines 104-112: cancel_all_timers(c_id) takes the timers of the
\* connection out of the reactor, and each waker found is woken
CancelAllTimers(w) == [w EXCEPT !.timer = FALSE, !.notified = w.timer \/ w.notified]

\* ConcurrentQueue::force_push on a queue bounded at n: displaces the oldest
ForcePush(q, x, n) ==
    IF Len(q) >= n THEN Append(Tail(q), x) ELSE Append(q, x)

(***************************************************************************)
(* packet/connected.rs: the ACK/NACK record list and its packer.           *)
(***************************************************************************)
\* Record::Single(first) when first = last, Record::Range(first, last) otherwise
Record(first, last) == <<first, last>>

\* extend_from, lines 296-300: the record of the run being built
PushRecord(records, first, last) == Append(records, Record(first, last))

\* a loop that takes the next item from the iterator before it looks at the budget
RECURSIVE ExtendLoopTakeFirst(_, _, _, _, _, _, _)
ExtendLoopTakeFirst(nums, i, first, last, upgrade, mtu, records) ==
    IF i > Len(nums)
    THEN [records |-> PushRecord(records, first, last), taken |-> i - 1]
    ELSE IF mtu < 4
    THEN [records |-> PushRecord(records, first, last), taken |-> i]
    ELSE IF nums[i] = last + 1
    THEN ExtendLoopTakeFirst(nums, i + 1, first, nums[i], FALSE,
                             IF upgrade THEN (mtu - 3) % U16 ELSE mtu, records)
    ELSE ExtendLoopTakeFirst(nums, i + 1, nums[i], nums[i], TRUE, (mtu - 4) % U16,
                             PushRecord(records, first, last))

\* a loop that stops while a whole Range record would still fit
RECURSIVE ExtendLoopEarly(_, _, _, _, _, _, _)
ExtendLoopEarly(nums, i, first, last, upgrade, mtu, records) ==
    IF mtu < 7 \/ i > Len(nums)
    THEN [records |-> PushRecord(records, first, last), taken |-> i - 1]
    ELSE IF nums[i] = last + 1
    THEN ExtendLoopEarly(nums, i + 1, first, nums[i], FALSE,
                         IF upgrade THEN (mtu - 3) % U16 ELSE mtu, records)
    ELSE ExtendLoopEarly(nums, i + 1, nums[i], nums[i], TRUE, (mtu - 4) % U16,
                         PushRecord(records, first, last))

\* extend_from, lines 269-294: the loop over the iterator; i is the next item,
\* mtu the remaining budget, upgrade the upgrade_flag
RECURSIVE ExtendLoop(_, _, _, _, _, _, _)
ExtendLoop(nums, i, first, last, upgrade, mtu, records) ==
    IF mtu < 4 \/ i > Len(nums)
    THEN [records |-> PushRecord(records, first, last), taken |-> i - 1]
    ELSE IF nums[i] = last + 1
    THEN ExtendLoop(nums, i + 1, first, nums[i], FALSE,
                    IF upgrade THEN (mtu - 3) % U16 ELSE mtu, records)
    ELSE ExtendLoop(nums, i + 1, nums[i], nums[i], TRUE, (mtu - 4) % U16,
                    PushRecord(records, first, last))

\* a budget that leaves out the four bytes of the first record
ExtendFromHeaderOnly(nums, mtu) ==
    IF nums = << >> THEN [none |-> TRUE, records |-> << >>, taken |-> 0]
    ELSE LET r == ExtendLoop(nums, 2, nums[1], nums[1], TRUE, (mtu - 3) % U16, << >>)
         IN  [none |-> FALSE, records |-> r.records, taken |-> r.taken]

\* Ack::extend_from(sorted_seq_nums, mtu): None on an empty iterator, otherwise the
\* records and the number of items taken from the iterator
ExtendFrom(nums, mtu) ==
    IF nums = << >> THEN [none |-> TRUE, records |-> << >>, taken |-> 0]
    ELSE LET r == ExtendLoop(nums, 2, nums[1], nums[1], TRUE, (mtu - 7) % U16, << >>)
         IN  [none |-> FALSE, records |-> r.records, taken |-> r.taken]

\* a u32 as its two 16-bit halves (TLC's integers are 32-bit signed)
U32Of(n) == [hi |-> n \div U16, lo |-> n % U16]

\* u32 addition: the sum modulo 2^32, and whether it left the range of u32
U32Add(x, y) ==
    LET lo == x.lo + y.lo
        hi == x.hi + y.hi + lo \div U16
    IN  [val |-> [hi |-> hi % U16, lo |-> lo % U16], overflow |-> hi >= U16]

\* u32 subtraction: the difference modulo 2^32, and whether it left the range of u32
U32Sub(x, y) ==
    LET lo == x.lo - y.lo
        hi == x.hi - y.hi - (IF lo < 0 THEN 1 ELSE 0)
    IN  [val |-> [hi |-> hi % U16, lo |-> lo % U16], overflow |-> hi < 0]

\* Record::ack_cnt, lines 367-372: end.0 - start.0 + 1 in u32 for a Range, 1 for a Single
AckCnt(rec) ==
    IF rec[1] = rec[2] THEN [val |-> U32Of(1), overflow |-> FALSE]
    ELSE LET diff == U32Sub(U32Of(rec[2]), U32Of(rec[1]))
             cnt == U32Add(diff.val, U32Of(1))
         IN  [val |-> cnt.val, overflow |-> diff.overflow \/ cnt.overflow]

\* Ack::read, lines 311-318: the loop over the records of the packet; i is the next
\* record, ack_cnt the running sum, wrapped whether the arithmetic has wrapped. An
\* operation that leaves the range of u32 panics in a build with overflow checks and
\* wraps in a build without.
RECURSIVE ReadLoop(_, _, _, _, _)
ReadLoop(recs, i, ack_cnt, wrapped, checks) ==
    IF i > Len(recs) THEN [result |-> "Ok", wrapped |-> wrapped]
    ELSE LET c == AckCnt(recs[i])
             sum == U32Add(ack_cnt, c.val)
             over == c.overflow \/ sum.overflow
         IN  IF checks /\ over THEN [result |-> "panic", wrapped |-> TRUE]
             ELSE IF sum.val.hi > 0 \/ sum.val.lo > MAX_ACKNOWLEDGEMENT_PACKETS
             THEN [result |-> "AckCountExceed", wrapped |-> wrapped \/ over]
             ELSE ReadLoop(recs, i + 1, sum.val, wrapped \/ over, checks)

\* Reliability::is_reliable / is_sequenced / is_sequenced_or_ordered (lines 170-192) on
\* the three reliability bits: 0 Unreliable, 1 UnreliableSequenced, 2 Reliable,
\* 3 ReliableOrdered, 4 ReliableSequenced
ReliabilityIsReliable(r) == r \in {2, 3, 4}
ReliabilityIsSequenced(r) == r \in {1, 4}
ReliabilityIsSequencedOrOrdered(r) == r \in {1, 3, 4}

\* the bytes FrameSet::read takes for the optional fields, lines 52-65: three uint24le,
\* the order channel byte and the Fragment (u32, u16, u32)
OptionalFieldBytes(r, parted) ==
    (IF ReliabilityIsReliable(r) THEN 3 ELSE 0)
    + (IF ReliabilityIsSequenced(r) THEN 3 ELSE 0)
    + (IF ReliabilityIsSequencedOrOrdered(r) THEN 3 + 1 ELSE 0)
    + (IF parted THEN 4 + 2 + 4 ELSE 0)

\* FrameSet::read, lines 39-76, on a buffer of d.remaining bytes whose flags byte holds
\* the reliability bits d.r and the parted bit d.parted and whose length field holds
\* d.length_bits. Buf::get_*, advance and split_to panic when the buffer is shorter
\* than what they take.
FrameSetRead(d) ==
    LET length == d.length_bits \div 8
        fields == OptionalFieldBytes(d.r, d.parted)
    IN  IF d.remaining < 3 + 1 + 2 THEN [result |-> "panic", body |-> 0]
        ELSE IF length = 0 THEN [result |-> "InvalidPacketLength", body |-> 0]
        ELSE IF d.r > 4 THEN [result |-> "InvalidReliability", body |-> 0]
        ELSE IF d.remaining - 6 < fields THEN [result |-> "panic", body |-> 0]
        ELSE IF d.remaining - 6 - fields < length THEN [result |-> "panic", body |-> 0]
        ELSE [result |-> "Ok", body |-> length]

\* Ack::read, lines 305-320, on a packet that carries the records recs
AckRead(recs, checks) == ReadLoop(recs, 1, U32Of(0), FALSE, checks)

\* the sequence numbers a record list covers
Covered(records) == UNION {records[i][1] .. records[i][2] : i \in DOMAIN records}

(***************************************************************************)
(* link.rs: what the writer takes out of the link.                         *)
(***************************************************************************)
\* process_outgoing_ack: extend_from over BatchRecv, which pops the heap
ProcessOutgoingAck(heap, mtu) ==
    LET r == ExtendFrom(heap, mtu)
    IN  [none |-> r.none, records |-> r.records,
         heap |-> SubSeq(heap, r.taken + 1, Len(heap))]

\* process_outgoing_nack: extend_from over an iterator of the set, which stays as it is
ProcessOutgoingNack(nacks, mtu) ==
    LET r == ExtendFrom(NackIter(nacks), mtu)
    IN  [none |-> r.none, records |-> r.records]

(***************************************************************************)
(* ResendMap (resend_map.rs): sequence number -> frames of the set.        *)
(***************************************************************************)
\* ResendMap::new: no entry
EmptyMap == [s \in {} |-> << >>]

\* ResendMap::is_empty
IsEmpty(map) == DOMAIN map = {}

\* ResendMap::record
ResendRecord(map, seq, frames) ==
    [s \in DOMAIN map \cup {seq} |-> IF s = seq THEN frames ELSE map[s]]

\* ResendMap::on_ack: removes every seq_num the ACK covers
OnAck(map, ack) == [s \in DOMAIN map \ ack |-> map[s]]

\* ResendMap::on_nack_into: removes the covered entries, in ascending order, and
\* pushes their frames onto the front of buf
RECURSIVE OnNackInto(_, _, _)
OnNackInto(map, nack, b) ==
    IF nack = {} THEN [map |-> map, buf |-> b]
    ELSE LET s == Min(nack)
         IN  IF s \in DOMAIN map
             THEN OnNackInto([t \in DOMAIN map \ {s} |-> map[t]], nack \ {s},
                             PushFrontAll(map[s], b))
             ELSE OnNackInto(map, nack \ {s}, b)

\* ResendMap::process_stales: the entries older than the RTO are re-queued the same way
ProcessStales(map, stale, b) == OnNackInto(map, stale, b)

(***************************************************************************)
(* guard.rs, try_empty: the pieces of the drain cycle.                     *)
(***************************************************************************)
\* a drain cycle that takes the ACKs off the queue without applying them
AbsorbAcksDropped(map, q) == map

\* the packets of the queue that cover an entry of the map, in queue order; on_ack and
\* on_nack_into leave the map and buf as they are on any other packet
Touching(map, q) ==
    LET Touches(records) == records \cap DOMAIN map # {}
    IN  SelectSeq(q, Touches)

\* on_ack for each packet of the queue, oldest first
RECURSIVE OnAckEach(_, _)
OnAckEach(map, q) ==
    IF q = << >> THEN map ELSE OnAckEach(OnAck(map, Head(q)), Tail(q))

\* lines 78-80: process_ack().for_each(on_ack)
AbsorbAcks(map, q) == OnAckEach(map, Touching(map, q))

\* a drain cycle that re-queues the NACKed frames into a scratch buffer, not into buf
RECURSIVE AbsorbNacksScratch(_, _, _)
AbsorbNacksScratch(map, b, q) ==
    IF q = << >> THEN [map |-> map, buf |-> b]
    ELSE AbsorbNacksScratch(OnNackInto(map, Head(q), << >>).map, b, Tail(q))

\* on_nack_into for each packet of the queue, oldest first
RECURSIVE OnNackEach(_, _, _)
OnNackEach(map, b, q) ==
    IF q = << >> THEN [map |-> map, buf |-> b]
    ELSE LET r == OnNackInto(map, Head(q), b)
         IN  OnNackEach(r.map, r.buf, Tail(q))

\* lines 81-83: process_nack().for_each(on_nack_into)
AbsorbNacks(map, b, q) == OnNackEach(map, b, Touching(map, q))

\* FlushStrategy::check_flushed: the buffers of the selected classes are empty
CheckFlushed(st, acks, nacks, unconn, b) ==
    /\ st.ack => acks = << >>
    /\ st.nack => nacks = {}
    /\ st.pack => (unconn = 0 /\ b = << >>)

\* a packing loop that pops the frame before the size test and loses it when it does
\* not fit
RECURSIVE PackFramesPopFirst(_, _, _)
PackFramesPopFirst(b, remain, frames) ==
    IF b = << >> THEN [buf |-> b, frames |-> frames]
    ELSE IF remain >= b[Len(b)].size
         THEN PackFramesPopFirst(SubSeq(b, 1, Len(b) - 1), remain - b[Len(b)].size,
                                 Append(frames, b[Len(b)]))
         ELSE [buf |-> SubSeq(b, 1, Len(b) - 1), frames |-> frames]

\* a packing loop that goes on as long as some budget is left
RECURSIVE PackFramesOver(_, _, _)
PackFramesOver(b, remain, frames) ==
    IF b # << >> /\ remain > 0
    THEN PackFramesOver(SubSeq(b, 1, Len(b) - 1),
                        IF remain >= b[Len(b)].size THEN remain - b[Len(b)].size ELSE 0,
                        Append(frames, b[Len(b)]))
    ELSE [buf |-> b, frames |-> frames]

\* lines 154-176: pop frames from the back while they fit the remaining budget
RECURSIVE PackFrames(_, _, _)
PackFrames(b, remain, frames) ==
    IF b # << >> /\ remain >= b[Len(b)].size
    THEN PackFrames(SubSeq(b, 1, Len(b) - 1), remain - b[Len(b)].size,
                    Append(frames, b[Len(b)]))
    ELSE [buf |-> b, frames |-> frames]

\* lines 159-161: the set holds a reliable frame
IsReliable(frames) == \E i \in DOMAIN frames : frames[i].rel

\* an emission that forgets to advance the index
NextSeqNumStuck(index) == index

\* line 194: *seq_num_write_index += 1 (the index stays far below 2^24 here)
NextSeqNum(index) == index + 1

\* a set that is sent and never kept for resending
KeepForResendNever(map, seq, frames) == map

\* a set kept for resending only when all of its frames are reliable
KeepForResendAllReliable(map, seq, frames) ==
    IF \A i \in DOMAIN frames : frames[i].rel THEN ResendRecord(map, seq, frames) ELSE map

\* lines 190-193: a set with a reliable frame is kept for resending
KeepForResend(map, seq, frames) ==
    IF IsReliable(frames) THEN ResendRecord(map, seq, frames) ELSE map

(***************************************************************************)
(* The state.                                                              *)
(***************************************************************************)
VARIABLES
    \* OutgoingGuard (guard.rs, lines 22-32)
    buf,                  \* VecDeque<Frame>: index 1 is the front
    seq_num_write_index,  \* next sequence number to assign
    resend,               \* ResendMap: seq_num -> frames
    \* the writer task: the poll in progress and its position in it
    op,                   \* "none", "ready", "flush", "close"
    pc,                   \* position inside the poll
    strategy,             \* the FlushStrategy of the poll's context
    can_send,             \* the last poll_ready returned Ready and start_send has not used it
    upstream,             \* what try_empty returned to the last poll_ready (line 217)
    closing,              \* poll_close has been called
    next_id,              \* frames submitted so far
    \* TransferLink (link.rs, lines 21-34)
    incoming_ack,         \* queue of received ACKs (the set each covers)
    incoming_nack,        \* queue of received NACKs
    forward_waking,
    outgoing_ack,         \* the min-heap, kept as its ascending pop order
    outgoing_nack,        \* the ordered set
    unconnected,          \* number of unconnected packets waiting
    \* Router (link.rs, lines 177-181) and the receive task
    seq_read,
    mid,                  \* the seq_num of the FrameSet deliver is working on, -1 when none
    router_rx,            \* the per-peer frame-set channel (seq_nums forwarded, not yet read)
    rx_closed,            \* the receiving end of the channel was dropped
    deliver_ret,          \* what the last deliver returned
    \* history
    emitted,              \* seq_num -> frames of every FrameSet handed to the sink
    acked,                \* seq_nums covered by the ACKs the drain cycle absorbed
    cleared,              \* seq_nums an absorbed ACK took out of the resend map
    nacked,               \* seq_nums an absorbed NACK took out of the resend map
    requeued,             \* seq_nums a NACK or the stale scan took out of the resend map
    nack_first,           \* seq_nums of reliable sets whose NACK arrived before any ACK
    delivered,            \* seq_nums of the FrameSets deliver worked through
    acks_out,             \* seq_nums covered by the ACK packets handed to the sink
    nacks_out,            \* seq_nums covered by the NACK packets handed to the sink
    events,               \* events from outside the writer task, so far
    deliveries,           \* FrameSets handed to deliver, so far
    \* the packet codec on its own (packet/connected.rs)
    codec,                \* the call of Ack::extend_from, Ack::read or FrameSet::read under study
    \* the timer reactor and the wakers, as poll_close and incoming_ack use them
    wake,                 \* timer: a resend timer of the connection is registered;
                          \* notified: the writer's waker was woken and the task not yet polled
    \* the server's dispatcher (server/incoming/tokio.rs, lines 35-44)
    server                \* Incoming: the peer map, the channels, the drop channel

guardVars == <<buf, seq_num_write_index, resend, op, pc, strategy, can_send, upstream, closing,
               next_id>>

linkVars == <<incoming_ack, incoming_nack, forward_waking, outgoing_ack, outgoing_nack,
              unconnected>>

routerVars == <<seq_read, mid, router_rx, rx_closed, deliver_ret>>

histVars == <<emitted, acked, cleared, nacked, requeued, nack_first, delivered, acks_out, nacks_out,
              events, deliveries>>

\* the history of the resend map
resendHist == <<acked, cleared, nacked, requeued>>

vars == <<guardVars, linkVars, routerVars, histVars, codec, wake, server>>

\* the reactor holds no timer of the connection, nobody was woken, and the receive
\* task is not inside incoming_ack
NoTimer == [timer |-> FALSE, notified |-> FALSE]

\* make_incoming, lines 57-74: no peer in the map, nothing on the drop channel; chans
\* are the per-peer channels created so far (none), pc the position in poll_next,
\* packs the packets the offline handler has output, disconnected the addresses
\* offline.disconnect was called with, last the last packet output and what became of it
MakeIncoming ==
    [router |-> << >>, chans |-> << >>, drop_receiver |-> << >>, pc |-> "idle", packs |-> 0,
     dropped |-> 0, disconnected |-> << >>, last |-> [addr |-> 0, outcome |-> "none"]]

\* handle_outgoing (guard.rs 49-67), new_arc (link.rs 56-71), Router::new (link.rs 184-194)
\* the connection after handle_outgoing, TransferLink::new_arc and Router::new
InitState ==
    /\ buf = << >>
    /\ seq_num_write_index = 0
    /\ resend = EmptyMap
    /\ op = "none"
    /\ pc = "idle"
    /\ strategy = DefaultStrategy
    /\ can_send = FALSE
    /\ upstream = "none"
    /\ closing = FALSE
    /\ next_id = 0
    /\ incoming_ack = << >>
    /\ incoming_nack = << >>
    /\ forward_waking = FALSE
    /\ outgoing_ack = << >>
    /\ outgoing_nack = {}
    /\ unconnected = 0
    /\ seq_read = 0
    /\ mid = -1
    /\ router_rx = << >>
    /\ rx_closed = FALSE
    /\ deliver_ret = TRUE
    /\ emitted = EmptyMap
    /\ acked = {}
    /\ cleared = {}
    /\ nacked = {}
    /\ requeued = {}
    /\ nack_first = {}
    /\ delivered = {}
    /\ acks_out = {}
    /\ nacks_out = {}
    /\ events = 0
    /\ deliveries = 0
    /\ wake = NoTimer
    /\ server = MakeIncoming

\* no call of the codec is under study
CodecIdle == [call |-> "none"]

Init == InitState /\ codec = CodecIdle

\* the poll returns to the task: no poll is in progress
Return ==
    /\ op' = "none"
    /\ pc' = "idle"
    /\ strategy' = DefaultStrategy

(***************************************************************************)
(* The writer task: the Sink<Frame> of OutgoingGuard (guard.rs 210-270).   *)
(***************************************************************************)
\* poll_ready is called: try_empty starts (line 217)
PollReady(st) ==
    /\ pc = "idle" /\ ~closing
    /\ op' = "ready" /\ pc' = "absorb" /\ strategy' = st
    /\ can_send' = FALSE
    /\ upstream' = "none"
    /\ UNCHANGED <<buf, seq_num_write_index, resend, closing, next_id>>
    /\ UNCHANGED <<linkVars, routerVars, histVars>>
    /\ UNCHANGED <<codec, wake, server>>

\* start_send (lines 230-235), called after a poll_ready that returned Ready
StartSend(r, n) ==
    /\ pc = "idle" /\ ~closing /\ can_send
    /\ next_id < MaxFrames
    /\ buf' = PushFront(buf, Frame(next_id + 1, r, n))
    /\ next_id' = next_id + 1
    /\ can_send' = FALSE
    /\ upstream' = "none"
    /\ UNCHANGED <<seq_num_write_index, resend, op, pc, strategy, closing>>
    /\ UNCHANGED <<linkVars, routerVars, histVars>>
    /\ UNCHANGED <<codec, wake, server>>

\* poll_flush is called: try_empty starts (line 238)
PollFlush(st) ==
    /\ pc = "idle" /\ ~closing
    /\ op' = "flush" /\ pc' = "absorb" /\ strategy' = st
    /\ can_send' = FALSE
    /\ upstream' = "none"
    /\ UNCHANGED <<buf, seq_num_write_index, resend, closing, next_id>>
    /\ UNCHANGED <<linkVars, routerVars, histVars>>
    /\ UNCHANGED <<codec, wake, server>>

\* poll_close is called, or polled again: turn_on_waking, then try_empty (lines 246-248)
PollClose(st) ==
    /\ pc = "idle"
    /\ op' = "close" /\ pc' = "absorb" /\ strategy' = st
    /\ closing' = TRUE
    /\ can_send' = FALSE
    /\ upstream' = "none"
    /\ forward_waking' = TRUE
    /\ wake' = [wake EXCEPT !.notified = FALSE]
    /\ UNCHANGED <<buf, seq_num_write_index, resend, next_id>>
    /\ UNCHANGED <<incoming_ack, incoming_nack, outgoing_ack, outgoing_nack, unconnected>>
    /\ UNCHANGED <<routerVars, histVars>>
    /\ UNCHANGED <<codec, server>>

\* try_empty, lines 78-92: absorb the ACKs, then the NACKs, then re-queue the stale
\* entries (stale: the entries whose RTO has passed)
Absorb(stale) ==
    /\ pc = "absorb"
    /\ LET afterAck == AbsorbAcks(resend, incoming_ack)
           afterNack == AbsorbNacks(afterAck, buf, incoming_nack)
           afterStale == ProcessStales(afterNack.map, stale, afterNack.buf)
       IN  /\ stale \subseteq DOMAIN afterNack.map
           /\ stale # {} => events < MaxEvents
           /\ events' = IF stale # {} THEN events + 1 ELSE events
           /\ resend' = afterStale.map
           /\ buf' = afterStale.buf
           /\ acked' = acked \cup UNION Range(incoming_ack)
           /\ cleared' = cleared \cup (DOMAIN resend \ DOMAIN afterAck)
           /\ nacked' = nacked \cup (DOMAIN afterAck \ DOMAIN afterNack.map)
           /\ requeued' = requeued \cup (DOMAIN afterAck \ DOMAIN afterStale.map)
    /\ incoming_ack' = << >>
    /\ incoming_nack' = << >>
    /\ pc' = "check"
    /\ UNCHANGED <<seq_num_write_index, op, strategy, can_send, upstream, closing, next_id>>
    /\ UNCHANGED <<forward_waking, outgoing_ack, outgoing_nack, unconnected>>
    /\ UNCHANGED <<routerVars, emitted, nack_first, delivered, acks_out, nacks_out, deliveries>>
    /\ UNCHANGED <<codec, wake, server>>

\* try_empty, line 94 and line 206: the loop condition
Check ==
    /\ pc = "check"
    /\ pc' = IF CheckFlushed(strategy, outgoing_ack, outgoing_nack, unconnected, buf)
             THEN "ret" ELSE "nack"
    /\ UNCHANGED <<buf, seq_num_write_index, resend, op, strategy, can_send, upstream, closing, next_id>>
    /\ UNCHANGED <<linkVars, routerVars, histVars>>
    /\ UNCHANGED <<codec, wake, server>>

\* try_empty, lines 96-111: the sink is ready; a NACK is built and sent
FlushNack ==
    /\ pc = "nack"
    /\ nacks_out' = IF strategy.nack
                    THEN nacks_out \cup Covered(ProcessOutgoingNack(outgoing_nack, Mtu).records)
                    ELSE nacks_out
    /\ pc' = "ack"
    /\ UNCHANGED <<buf, seq_num_write_index, resend, op, strategy, can_send, upstream, closing, next_id>>
    /\ UNCHANGED <<linkVars, routerVars>>
    /\ UNCHANGED <<emitted, resendHist, nack_first, delivered, acks_out, events, deliveries>>
    /\ UNCHANGED <<codec, wake, server>>

\* try_empty, lines 114-134: the sink is ready; an ACK is built and sent
FlushAck ==
    /\ pc = "ack"
    /\ LET ack == ProcessOutgoingAck(outgoing_ack, Mtu)
       IN  IF strategy.ack
           THEN outgoing_ack' = ack.heap /\ acks_out' = acks_out \cup Covered(ack.records)
           ELSE UNCHANGED <<outgoing_ack, acks_out>>
    /\ pc' = IF strategy.pack THEN "unconn" ELSE "check"
    /\ UNCHANGED <<buf, seq_num_write_index, resend, op, strategy, can_send, upstream, closing, next_id>>
    /\ UNCHANGED <<incoming_ack, incoming_nack, forward_waking, outgoing_nack, unconnected>>
    /\ UNCHANGED <<routerVars, emitted, resendHist, nack_first, delivered, nacks_out, events, deliveries>>
    /\ UNCHANGED <<codec, wake, server>>

\* try_empty, lines 137-150: the sink is ready; one unconnected packet is sent
FlushUnconnected ==
    /\ pc = "unconn"
    /\ unconnected' = IF unconnected > 0 THEN unconnected - 1 ELSE 0
    /\ pc' = "pack"
    /\ UNCHANGED <<buf, seq_num_write_index, resend, op, strategy, can_send, upstream, closing, next_id>>
    /\ UNCHANGED <<incoming_ack, incoming_nack, forward_waking, outgoing_ack, outgoing_nack>>
    /\ UNCHANGED <<routerVars, histVars>>
    /\ UNCHANGED <<codec, wake, server>>

\* try_empty, lines 153-196: the sink is ready; one FrameSet is packed and sent
FlushPack ==
    /\ pc = "pack"
    /\ LET packed == PackFrames(buf, Mtu - FRAME_SET_HEADER_SIZE, << >>)
       IN  /\ buf' = packed.buf
           /\ IF packed.frames # << >>
              THEN /\ emitted' = [s \in DOMAIN emitted \cup {seq_num_write_index} |->
                                    IF s = seq_num_write_index THEN packed.frames
                                    ELSE emitted[s]]
                   /\ resend' = KeepForResend(resend, seq_num_write_index, packed.frames)
                   /\ seq_num_write_index' = NextSeqNum(seq_num_write_index)
              ELSE UNCHANGED <<emitted, resend, seq_num_write_index>>
    /\ pc' = "check"
    /\ UNCHANGED <<op, strategy, can_send, upstream, closing, next_id>>
    /\ UNCHANGED <<linkVars, routerVars, resendHist, nack_first, delivered, acks_out, nacks_out, events, deliveries>>
    /\ UNCHANGED <<codec, wake, server>>

\* a capacity test that lets the buffer fill one frame past cap
ReadyResultLate(b, cap) == Len(b) <= cap

\* poll_ready, lines 219-227: Ready iff the buffer is below cap
ReadyResult(b, cap) == Len(b) < cap

\* the downstream poll_ready of lines 96, 114, 137 or 153 returns Pending: try_empty
\* returns Pending.  poll_flush and poll_close return it (ready!); poll_ready goes on
\* to its capacity test (lines 217-227)
SinkPendingAt(cap) ==
    /\ pc \in {"nack", "ack", "unconn", "pack"}
    /\ can_send' = (op = "ready" /\ ReadyResult(buf, cap))
    /\ upstream' = IF op = "ready" THEN "pending" ELSE "none"
    /\ Return
    /\ UNCHANGED <<buf, seq_num_write_index, resend, closing, next_id>>
    /\ UNCHANGED <<linkVars, routerVars, histVars>>
    /\ UNCHANGED <<codec, wake, server>>

\* poll_ready, lines 219-227, after try_empty returned Ready
ReadyReturnAt(cap) ==
    /\ pc = "ret" /\ op = "ready"
    /\ can_send' = ReadyResult(buf, cap)
    /\ upstream' = "ready"
    /\ Return
    /\ UNCHANGED <<buf, seq_num_write_index, resend, closing, next_id>>
    /\ UNCHANGED <<linkVars, routerVars, histVars>>
    /\ UNCHANGED <<codec, wake, server>>

\* poll_ready, lines 220-223: the debug assertion fails (debug builds abort)
ReadyAssertFailsAt(cap) ==
    /\ pc = "ret" /\ op = "ready"
    /\ Len(buf) >= cap
    /\ pc' = "panic"
    /\ UNCHANGED <<buf, seq_num_write_index, resend, op, strategy, can_send, upstream, closing, next_id>>
    /\ UNCHANGED <<linkVars, routerVars, histVars>>
    /\ UNCHANGED <<codec, wake, server>>

\* the writer constructed with send_buf_cap = Cap
SinkPending == SinkPendingAt(Cap)

ReadyReturn == ReadyReturnAt(Cap)

ReadyAssertFails == ReadyAssertFailsAt(Cap)

\* poll_flush, line 239: the downstream poll_flush, Ready or Pending
FlushReturn ==
    /\ pc = "ret" /\ op = "flush"
    /\ Return
    /\ UNCHANGED <<buf, seq_num_write_index, resend, can_send, upstream, closing, next_id>>
    /\ UNCHANGED <<linkVars, routerVars, histVars>>
    /\ UNCHANGED <<codec, wake, server>>

\* what the debug assertion of poll_close, lines 249-254, states
CloseAssertion ==
    buf = << >> /\ unconnected = 0 /\ outgoing_ack = << >> /\ outgoing_nack = {}

\* poll_close, lines 249-255: the assertion is passed (or compiled out) and the
\* downstream poll_flush returns Ready
CloseFlush ==
    /\ pc = "ret" /\ op = "close"
    /\ pc' = "wait"
    /\ UNCHANGED <<buf, seq_num_write_index, resend, op, strategy, can_send, upstream, closing, next_id>>
    /\ UNCHANGED <<linkVars, routerVars, histVars>>
    /\ UNCHANGED <<codec, wake, server>>

\* poll_close, lines 249-254: the debug assertion fails (debug builds abort)
CloseAssertFails ==
    /\ pc = "ret" /\ op = "close"
    /\ ~CloseAssertion
    /\ pc' = "panic"
    /\ UNCHANGED <<buf, seq_num_write_index, resend, op, strategy, can_send, upstream, closing, next_id>>
    /\ UNCHANGED <<linkVars, routerVars, histVars>>
    /\ UNCHANGED <<codec, wake, server>>

\* poll_close, line 255 or line 268: the downstream poll_flush or poll_close returns
\* Pending (line 268 is reached with the resend map empty and waking turned off)
CloseDownstreamPending ==
    /\ op = "close"
    /\ \/ pc = "ret" /\ UNCHANGED forward_waking
       \/ pc = "wait" /\ IsEmpty(resend) /\ forward_waking' = FALSE
    /\ Return
    /\ UNCHANGED <<buf, seq_num_write_index, resend, can_send, upstream, closing, next_id>>
    /\ UNCHANGED <<incoming_ack, incoming_nack, outgoing_ack, outgoing_nack, unconnected>>
    /\ UNCHANGED <<routerVars, histVars>>
    /\ UNCHANGED <<codec, wake, server>>

\* poll_close, lines 256-268: the resend map is empty; turn_off_waking and the
\* downstream poll_close returns Ready
CloseReturn ==
    /\ pc = "wait" /\ op = "close"
    /\ IsEmpty(resend)
    /\ forward_waking' = FALSE
    /\ pc' = "closed"
    /\ UNCHANGED <<buf, seq_num_write_index, resend, op, strategy, can_send, upstream, closing, next_id>>
    /\ UNCHANGED <<incoming_ack, incoming_nack, outgoing_ack, outgoing_nack, unconnected>>
    /\ UNCHANGED <<routerVars, histVars>>
    /\ UNCHANGED <<codec, wake, server>>

\* poll_close, line 264: the resend map is not empty; poll_wait returns Pending (the
\* timer is registered with the task's waker) or Ready (the deadline has passed: the
\* loop runs again)
CloseWait(fired) ==
    /\ pc = "wait" /\ op = "close"
    /\ ~IsEmpty(resend)
    /\ IF fired
       THEN pc' = "absorb" /\ UNCHANGED <<op, strategy, wake>>
       ELSE Return /\ wake' = [wake EXCEPT !.timer = TRUE]
    /\ UNCHANGED <<buf, seq_num_write_index, resend, can_send, upstream, closing, next_id>>
    /\ UNCHANGED <<linkVars, routerVars, histVars>>
    /\ UNCHANGED <<codec, server>>

(***************************************************************************)
(* The receive task: Router::deliver (link.rs 197-224) and what else       *)
(* reaches the link.                                                       *)
(***************************************************************************)
\* deliver, lines 198-200: the channel is closed; nothing is done
DeliverRejected ==
    /\ mid = -1 /\ rx_closed
    /\ deliver_ret
    /\ deliver_ret' = FALSE
    /\ UNCHANGED <<seq_read, mid, router_rx, rx_closed>>
    /\ UNCHANGED <<guardVars, linkVars, histVars>>
    /\ UNCHANGED <<codec, wake, server>>

\* deliver of a FrameSet, line 205: seq_num is pushed onto outgoing_ack under its lock
DeliverPushAck(seq_num) ==
    /\ mid = -1 /\ ~rx_closed
    /\ deliveries < MaxDeliver
    /\ deliveries' = deliveries + 1
    /\ outgoing_ack' = HeapPush(outgoing_ack, seq_num)
    /\ mid' = seq_num
    /\ UNCHANGED <<incoming_ack, incoming_nack, forward_waking, outgoing_nack, unconnected>>
    /\ UNCHANGED <<seq_read, router_rx, rx_closed, deliver_ret>>
    /\ UNCHANGED <<guardVars, emitted, resendHist, nack_first, delivered, acks_out, nacks_out, events>>
    /\ UNCHANGED <<codec, wake, server>>

\* an update of outgoing_nack that leaves the delivered seq_num in the set
NackUpdateKeep(nacks, pre_read, seq_num) ==
    nacks \cup (IF pre_read <= seq_num THEN pre_read .. (seq_num - 1) ELSE {})

\* lines 209-216: what deliver does to outgoing_nack while it holds the lock
NackUpdate(nacks, pre_read, seq_num) ==
    (nacks \ {seq_num}) \cup (IF pre_read <= seq_num THEN pre_read .. (seq_num - 1) ELSE {})

\* a seq_read that follows the latest FrameSet, whatever came before
NextSeqReadLatest(pre_read, seq_num) == seq_num + 1

\* lines 210-212: seq_read after the FrameSet
NextSeqRead(pre_read, seq_num) == IF pre_read <= seq_num THEN seq_num + 1 ELSE pre_read

\* a router that drops the FrameSet
TrySendDropped(chan, seq_num) == chan

\* line 218: router_tx.try_send(frames) on the unbounded channel
TrySend(chan, seq_num) == Append(chan, seq_num)

\* lines 207-216 run for the FrameSets seqs one after another
RECURSIVE Deliveries(_, _, _)
Deliveries(seqs, nacks, read) ==
    IF seqs = << >> THEN [outgoing_nack |-> nacks, seq_read |-> read]
    ELSE Deliveries(Tail(seqs), NackUpdate(nacks, read, Head(seqs)),
                    NextSeqRead(read, Head(seqs)))

\* deliver of a FrameSet, lines 207-218: the NACK set and seq_read are updated under
\* the lock of outgoing_nack, then the FrameSet is forwarded
DeliverUpdateNack ==
    /\ mid # -1
    /\ outgoing_nack' = NackUpdate(outgoing_nack, seq_read, mid)
    /\ seq_read' = NextSeqRead(seq_read, mid)
    /\ IF rx_closed
       THEN deliver_ret' = FALSE /\ UNCHANGED router_rx
       ELSE deliver_ret' = TRUE /\ router_rx' = TrySend(router_rx, mid)
    /\ delivered' = delivered \cup {mid}
    /\ mid' = -1
    /\ UNCHANGED <<incoming_ack, incoming_nack, forward_waking, outgoing_ack, unconnected>>
    /\ UNCHANGED rx_closed
    /\ UNCHANGED <<guardVars, emitted, resendHist, nack_first, acks_out, nacks_out, events, deliveries>>
    /\ UNCHANGED <<codec, wake, server>>

\* deliver of an Ack, line 220, and incoming_ack, lines 88-113
DeliverAck(ack) ==
    /\ mid = -1 /\ ~rx_closed
    /\ events < MaxEvents
    /\ events' = events + 1
    /\ incoming_ack' = ForcePush(incoming_ack, ack, MAX_ACK_BUFFER)
    /\ wake' = IF forward_waking THEN CancelAllTimers(wake) ELSE wake
    /\ UNCHANGED <<incoming_nack, forward_waking, outgoing_ack, outgoing_nack, unconnected>>
    /\ UNCHANGED <<guardVars, routerVars>>
    /\ UNCHANGED <<emitted, resendHist, nack_first, delivered, acks_out, nacks_out, deliveries>>
    /\ UNCHANGED <<codec, server>>

\* deliver of a Nack, line 221, and incoming_nack, lines 115-124
DeliverNack(nack) ==
    /\ mid = -1 /\ ~rx_closed
    /\ events < MaxEvents
    /\ events' = events + 1
    /\ incoming_nack' = ForcePush(incoming_nack, nack, MAX_ACK_BUFFER)
    /\ nack_first' = nack_first \cup
                     {s \in nack \cap DOMAIN emitted :
                         /\ IsReliable(emitted[s])
                         /\ s \notin acked \cup UNION Range(incoming_ack)}
    /\ UNCHANGED <<incoming_ack, forward_waking, outgoing_ack, outgoing_nack, unconnected>>
    /\ UNCHANGED <<guardVars, routerVars>>
    /\ UNCHANGED <<emitted, resendHist, delivered, acks_out, nacks_out, deliveries>>
    /\ UNCHANGED <<codec, wake, server>>

\* the frame decoder takes a FrameSet from the channel
RouteRecv ==
    /\ router_rx # << >> /\ ~rx_closed
    /\ router_rx' = Tail(router_rx)
    /\ UNCHANGED <<seq_read, mid, rx_closed, deliver_ret>>
    /\ UNCHANGED <<guardVars, linkVars, histVars>>
    /\ UNCHANGED <<codec, wake, server>>

\* the stream of the channel is dropped: is_closed() holds from now on
RouteDrop ==
    /\ ~rx_closed
    /\ rx_closed' = TRUE
    /\ router_rx' = << >>
    /\ UNCHANGED <<seq_read, mid, deliver_ret>>
    /\ UNCHANGED <<guardVars, linkVars, histVars>>
    /\ UNCHANGED <<codec, wake, server>>

\* send_unconnected, lines 126-128, called by the online handler
SendUnconnected ==
    /\ events < MaxEvents
    /\ events' = events + 1
    /\ unconnected' = unconnected + 1
    /\ UNCHANGED <<incoming_ack, incoming_nack, forward_waking, outgoing_ack, outgoing_nack>>
    /\ UNCHANGED <<guardVars, routerVars>>
    /\ UNCHANGED <<emitted, resendHist, nack_first, delivered, acks_out, nacks_out, deliveries>>
    /\ UNCHANGED <<codec, wake, server>>

(***************************************************************************)
(* The specification of the connection: writer task and receive task.      *)
(***************************************************************************)
\* the ACK and NACK packets of the peer: each covers one FrameSet emitted so far
PeerRecords == {{s} : s \in 0 .. (seq_num_write_index - 1)}

\* the steps of a drain cycle, the downstream sink accepting
DrainSteps ==
    \/ \E stale \in SUBSET DOMAIN resend : Absorb(stale)
    \/ Check
    \/ FlushNack
    \/ FlushAck
    \/ FlushUnconnected
    \/ FlushPack

\* the steps of a poll in progress, the downstream sink accepting
PollSteps ==
    \/ DrainSteps
    \/ ReadyReturn
    \/ CloseFlush
    \/ CloseAssertFails
    \/ CloseReturn
    \/ \E fired \in BOOLEAN : CloseWait(fired)

\* the writer before it closes: poll_ready, start_send and poll_flush
WriterNext ==
    \/ \E st \in Strategies : PollReady(st) \/ PollFlush(st)
    \/ \E k \in FrameKinds : StartSend(k[1], k[2])
    \/ DrainSteps
    \/ ReadyReturn
    \/ ReadyAssertFails
    \/ FlushReturn
    \/ SinkPending

\* the peer's ACKs and NACKs and the online handler's unconnected packets
PeerNext ==
    \/ \E a \in PeerRecords : DeliverAck(a)
    \/ \E n \in PeerRecords : DeliverNack(n)
    \/ SendUnconnected

\* the FrameSets of the peer and the consumer of the channel
RouterNext ==
    \/ DeliverRejected
    \/ \E s \in 0 .. MaxPeerSeq : DeliverPushAck(s)
    \/ DeliverUpdateNack
    \/ RouteRecv
    \/ RouteDrop

Next == WriterNext \/ PeerNext

Spec == Init /\ [][Next]_vars

(***************************************************************************)
(* The receive side alone: the router fed with FrameSets, and a writer     *)
(* that only flushes what the router leaves in the link.                   *)
(***************************************************************************)
RouterSpecNext ==
    \/ RouterNext
    \/ PollFlush(DefaultStrategy)
    \/ Absorb({})
    \/ Check
    \/ FlushNack
    \/ FlushAck
    \/ FlushUnconnected
    \/ FlushPack
    \/ SinkPending
    \/ FlushReturn

SpecRouter == Init /\ [][RouterSpecNext]_vars

\* the same with a downstream sink that always accepts
RouterLiveNext ==
    \/ RouterNext
    \/ PollFlush(DefaultStrategy)
    \/ Absorb({})
    \/ Check
    \/ FlushNack
    \/ FlushAck
    \/ FlushUnconnected
    \/ FlushPack
    \/ FlushReturn

\* the writer task flushes again and again, and a poll in progress runs on
WriterFlushes ==
    \/ PollFlush(DefaultStrategy)
    \/ Absorb({})
    \/ Check
    \/ FlushNack
    \/ FlushAck
    \/ FlushUnconnected
    \/ FlushPack
    \/ FlushReturn

SpecRouterLive == Init /\ [][RouterLiveNext]_vars /\ WF_vars(WriterFlushes)

(***************************************************************************)
(* Closing: the writer submits reliable frames and closes while the        *)
(* receive task delivers the peer's FrameSets, ACKs and NACKs.             *)
(***************************************************************************)
\* the calls of the user: one reliable frame after another, then close
CloseCalls(strategies) ==
    \/ \E st \in strategies : PollReady(st) \/ PollClose(st)
    \/ next_id < CloseFrames /\ StartSend(TRUE, 3)

\* what the receive task hands to the link
CloseReceive ==
    \/ deliveries < CloseDeliver /\ \E s \in 0 .. ClosePeerSeq : DeliverPushAck(s)
    \/ DeliverUpdateNack
    \/ \E a \in PeerRecords : DeliverAck(a)
    \/ \E n \in PeerRecords : DeliverNack(n)

CloseNext ==
    \/ CloseCalls(Strategies)
    \/ PollSteps
    \/ SinkPending
    \/ CloseDownstreamPending
    \/ CloseReceive

SpecClose == Init /\ [][CloseNext]_vars

\* the same with a downstream sink that always accepts and the default strategy
CloseLiveNext ==
    \/ CloseCalls({DefaultStrategy})
    \/ PollSteps
    \/ CloseReceive

\* the writer task is polled again whenever it returned Pending from poll_close, and
\* a poll in progress runs on
WriterRuns == PollSteps \/ (closing /\ PollClose(DefaultStrategy))

SpecCloseLive == Init /\ [][CloseLiveNext]_vars /\ WF_vars(WriterRuns)

(***************************************************************************)
(* The codec on its own: Ack::extend_from called again and again on one    *)
(* iterator until it returns None (packet/connected.rs 255-303).           *)
(***************************************************************************)
\* the sorted (non-decreasing) iterators handed to extend_from
SortedSeqNums ==
    {q \in UNION {[1 .. n -> 0 .. MaxSeqNum] : n \in 0 .. MaxIterLen} :
        \A i \in 1 .. (Len(q) - 1) : q[i] <= q[i + 1]}

\* a series of extend_from calls on the iterator q with the argument m
ExtendCalls(q, m) ==
    [call |-> "extend", input |-> q, sorted_seq_nums |-> q, mtu |-> m, acks |-> << >>,
     done |-> FALSE]

\* the sequence numbers on the wire in the packets handed to Ack::read: around zero
\* and around the limit of the count
WireSeqNums ==
    {0, 1, MAX_ACKNOWLEDGEMENT_PACKETS - 1, MAX_ACKNOWLEDGEMENT_PACKETS,
     MAX_ACKNOWLEDGEMENT_PACKETS + 1}

\* the records Record::read can return: any pair of uint24 is a Range
WireRecords == {Record(a, b) : a, b \in WireSeqNums}

\* the packets handed to Ack::read
WirePackets == UNION {[1 .. n -> WireRecords] : n \in 0 .. MaxReadRecords}

\* a call of Ack::read on the packet p, in a build with or without overflow checks
ReadCall(p, checks) ==
    [call |-> "read", records |-> p, overflow_checks |-> checks, done |-> FALSE,
     result |-> "none", wrapped |-> FALSE]

\* the datagrams handed to FrameSet::read: any number of bytes, any flags byte, and a
\* length field of whole bytes or of seven bits more
WireFrameSets ==
    {[remaining |-> n, r |-> r, parted |-> p, length_bits |-> 8 * k + j] :
        n \in 0 .. MaxWireLen, r \in 0 .. 7, p \in BOOLEAN,
        k \in 0 .. MaxBodyLen, j \in {0, 7}}

\* a call of FrameSet::read on the datagram d
FrameSetReadCall(d) ==
    [call |-> "frame_set", datagram |-> d, done |-> FALSE, result |-> "none", body |-> 0]

CodecInit ==
    /\ InitState
    /\ codec \in {ExtendCalls(q, m) : q \in SortedSeqNums, m \in 7 .. MaxAckMtu}
               \cup {ReadCall(p, c) : p \in WirePackets, c \in BOOLEAN}
               \cup {FrameSetReadCall(d) : d \in WireFrameSets}

\* one call of extend_from: None ends the series, otherwise the records are kept and
\* the iterator has moved past the items taken
ExtendFromCall ==
    /\ codec.call = "extend" /\ ~codec.done
    /\ LET r == ExtendFrom(codec.sorted_seq_nums, codec.mtu)
       IN  codec' = IF r.none THEN [codec EXCEPT !.done = TRUE]
                    ELSE [codec EXCEPT !.acks = Append(@, r.records),
                                       !.sorted_seq_nums = SubSeq(@, r.taken + 1, Len(@))]
    /\ UNCHANGED <<guardVars, linkVars, routerVars, histVars, wake, server>>

\* one call of Ack::read
AckReadCall ==
    /\ codec.call = "read" /\ ~codec.done
    /\ LET r == AckRead(codec.records, codec.overflow_checks)
       IN  codec' = [codec EXCEPT !.done = TRUE, !.result = r.result, !.wrapped = r.wrapped]
    /\ UNCHANGED <<guardVars, linkVars, routerVars, histVars, wake, server>>

\* one call of FrameSet::read
ReadFrameSet ==
    /\ codec.call = "frame_set" /\ ~codec.done
    /\ LET r == FrameSetRead(codec.datagram)
       IN  codec' = [codec EXCEPT !.done = TRUE, !.result = r.result, !.body = r.body]
    /\ UNCHANGED <<guardVars, linkVars, routerVars, histVars, wake, server>>

CodecNext == ExtendFromCall \/ AckReadCall \/ ReadFrameSet

SpecCodec == CodecInit /\ [][CodecNext]_vars

(***************************************************************************)
(* The link under a flood: the peer has sent ACKs and NACKs faster than    *)
(* the writer was polled, and goes on sending while the writer drains.     *)
(***************************************************************************)
\* the peer acknowledges one sequence number after the other: the n packets queued
Flooded(n) == [i \in 1 .. n |-> {i}]

\* the packet that follows the ones in the queue
NextRecord(q) == IF q = << >> THEN {1} ELSE {Max(q[Len(q)]) + 1}

\* the state after the receive task has called incoming_ack and incoming_nack that many
\* times with no poll of the writer in between
FloodInit ==
    /\ \E a, n \in (MAX_ACK_BUFFER - FloodSlack) .. MAX_ACK_BUFFER :
          /\ incoming_ack = Flooded(a)
          /\ incoming_nack = Flooded(n)
    /\ buf = << >> /\ seq_num_write_index = 0 /\ resend = EmptyMap
    /\ op = "none" /\ pc = "idle" /\ strategy = DefaultStrategy
    /\ can_send = FALSE /\ upstream = "none" /\ closing = FALSE /\ next_id = 0
    /\ forward_waking = FALSE /\ outgoing_ack = << >> /\ outgoing_nack = {}
    /\ unconnected = 0
    /\ seq_read = 0 /\ mid = -1 /\ router_rx = << >> /\ rx_closed = FALSE
    /\ deliver_ret = TRUE
    /\ emitted = EmptyMap /\ acked = {} /\ cleared = {} /\ nacked = {} /\ requeued = {}
    /\ nack_first = {} /\ delivered = {} /\ acks_out = {} /\ nacks_out = {}
    /\ events = 0 /\ deliveries = 0
    /\ codec = CodecIdle /\ wake = NoTimer /\ server = MakeIncoming

FloodNext ==
    \/ DeliverAck(NextRecord(incoming_ack))
    \/ DeliverNack(NextRecord(incoming_nack))
    \/ SendUnconnected
    \/ \E st \in Strategies : PollFlush(st)
    \/ DrainSteps
    \/ FlushReturn

SpecFlood == FloodInit /\ [][FloodNext]_vars

(***************************************************************************)
(* A writer constructed with send_buf_cap = FifoCap: several frames wait   *)
(* in buf and share a FrameSet.                                            *)
(***************************************************************************)
FifoNext ==
    \/ \E st \in Strategies : PollReady(st) \/ PollFlush(st)
    \/ \E k \in FrameKinds : StartSend(k[1], k[2])
    \/ DrainSteps
    \/ ReadyReturnAt(FifoCap)
    \/ ReadyAssertFailsAt(FifoCap)
    \/ FlushReturn
    \/ SinkPendingAt(FifoCap)

SpecFifo == Init /\ [][FifoNext]_vars

(***************************************************************************)
(* The server's dispatcher (server/incoming/tokio.rs): Incoming::poll_next *)
(* beside the IO handles it has yielded.                                   *)
(***************************************************************************)
\* an eviction that tells the offline handler and leaves the peer in the map
EvictKeepRoute(srv, a) == [srv EXCEPT !.disconnected = Append(@, a)]

\* lines 50-51 and lines 89-90: router.remove(addr), then offline.disconnect(addr)
Evict(srv, a) ==
    [srv EXCEPT !.router = [x \in DOMAIN srv.router \ {a} |-> srv.router[x]],
                !.disconnected = Append(@, a)]

\* clear_dropped_addr, lines 47-53: every address on the drop channel is evicted
RECURSIVE ClearDroppedAddr(_)
ClearDroppedAddr(srv) ==
    IF srv.drop_receiver = << >> THEN srv
    ELSE ClearDroppedAddr(Evict([srv EXCEPT !.drop_receiver = Tail(@)],
                                Head(srv.drop_receiver)))

\* poll_next, lines 78-80: the drop channel is drained, then the loop starts
ServerPollNext ==
    /\ server.pc = "idle"
    /\ server' = [ClearDroppedAddr(server) EXCEPT !.pc = "offline"]
    /\ UNCHANGED <<guardVars, linkVars, routerVars, histVars, codec, wake>>

\* poll_next, lines 83-140: the offline handler outputs a packet of the peer a. A known
\* peer gets it on its channel, or is evicted when the send fails, and the loop goes
\* on; an unknown peer gets a new channel that holds the packet, and poll_next returns
\* the new IO handle.
OfflineOutput(a) ==
    /\ server.pc = "offline"
    /\ server.packs < MaxPacks
    /\ LET n == server.packs + 1
           counted == [server EXCEPT !.packs = n]
       IN  IF a \in DOMAIN server.router
           THEN IF server.chans[server.router[a]].open
                THEN server' = [counted EXCEPT !.chans[server.router[a]].sent = Append(@, n),
                                               !.last = [addr |-> a, outcome |-> "forwarded"]]
                ELSE server' = [Evict(counted, a) EXCEPT
                                    !.last = [addr |-> a, outcome |-> "evicted"]]
           ELSE server' = [counted EXCEPT
                               !.chans = Append(@, [addr |-> a, sent |-> <<n>>, open |-> TRUE, told |-> FALSE]),
                               !.router = [x \in DOMAIN server.router \cup {a} |->
                                              IF x = a THEN Len(server.chans) + 1
                                              ELSE server.router[x]],
                               !.pc = "idle",
                               !.last = [addr |-> a, outcome |-> "new"]]
    /\ UNCHANGED <<guardVars, linkVars, routerVars, histVars, codec, wake>>

\* poll_next, line 83: the offline handler has nothing now; poll_next returns Pending
OfflinePending ==
    /\ server.pc = "offline"
    /\ server' = [server EXCEPT !.pc = "idle"]
    /\ UNCHANGED <<guardVars, linkVars, routerVars, histVars, codec, wake>>

\* the IO handle of the channel c is dropped, and the receiver of the channel with it
HandleDropped(c) ==
    /\ c \in DOMAIN server.chans /\ server.chans[c].open
    /\ server' = [server EXCEPT !.chans[c].open = FALSE]
    /\ UNCHANGED <<guardVars, linkVars, routerVars, histVars, codec, wake>>

\* the online handler of the dropped handle of the channel c pushes the peer's address
\* on the drop channel, once (the drop_notifier clone it was given, line 129)
DropNotify(c) ==
    /\ c \in DOMAIN server.chans
    /\ ~server.chans[c].open /\ ~server.chans[c].told
    /\ server.dropped < MaxDropped
    /\ server' = [server EXCEPT !.drop_receiver = Append(@, server.chans[c].addr),
                                !.chans[c].told = TRUE,
                                !.dropped = @ + 1]
    /\ UNCHANGED <<guardVars, linkVars, routerVars, histVars, codec, wake>>

ServerNext ==
    \/ ServerPollNext
    \/ \E a \in 1 .. ServerAddrs : OfflineOutput(a)
    \/ OfflinePending
    \/ \E c \in 1 .. MaxPacks : HandleDropped(c)
    \/ \E c \in 1 .. MaxPacks : DropNotify(c)

SpecServer == Init /\ [][ServerNext]_vars

(***************************************************************************)
(* Properties of the send side (specification Spec).                       *)
(***************************************************************************)
\* the FrameSets emitted with a reliable frame
ReliableSets == {s \in DOMAIN emitted : IsReliable(emitted[s])}

\* frame f of set s went out again in a later FrameSet
ReEmittedLater(s, f) == \E s2 \in DOMAIN emitted : s2 > s /\ f \in Range(emitted[s2])

\* an ACK covering s has reached the link (queued or absorbed)
AckReceived(s) == s \in acked \cup UNION Range(incoming_ack)

\* a NACK covering s waits in the link
NackQueued(s) == s \in UNION Range(incoming_nack)

C2_NoRetransmitAfterAck ==
    [][\A s \in acked \cap DOMAIN emitted : \A s2 \in DOMAIN emitted' \ DOMAIN emitted :
           Range(emitted'[s2]) \cap Range(emitted[s]) = {}]_vars

\* C2 amended: an absorbed ACK covering s leaves s out of the resend map; if the ACK
\* took s out of the map, the frames of s are neither waiting in buf nor in any later
\* FrameSet; absorbing an ACK for s once more changes nothing in the map.
C2_AckClears ==
    /\ \A s \in acked : s \notin DOMAIN resend /\ AbsorbAcks(resend, <<{s}>>) = resend
    /\ \A s \in cleared : \A f \in Range(emitted[s]) :
          f \notin Range(buf) /\ ~ReEmittedLater(s, f)

\* a set cleared by an ACK, with a later FrameSet on the wire
C2_Witness == \E s \in cleared : \E s2 \in DOMAIN emitted : s2 > s

\* C3 as stated: every FrameSet emitted with a reliable frame is in the resend map until
\* an ACK covering it is received.
C3_InMapUntilAck == \A s \in ReliableSets : AckReceived(s) \/ s \in DOMAIN resend

\* C3 amended: every FrameSet emitted with a reliable frame is in the resend map under
\* its sequence number, with its whole frame list, until a drain cycle absorbs an ACK
\* covering it or re-queues its frames (NACK or stale scan); no other set is in the map.
C3_InMapUntilAbsorbed ==
    /\ \A s \in ReliableSets : s \in DOMAIN resend \cup cleared \cup requeued
    /\ \A s \in DOMAIN resend : s \in ReliableSets /\ resend[s] = emitted[s]
    /\ DOMAIN resend \cap (cleared \cup requeued) = {}

\* a set with a reliable and an unreliable frame is kept whole
C3_Witness ==
    \E s \in DOMAIN resend :
        Len(resend[s]) = 2 /\ \E i \in DOMAIN resend[s] : ~resend[s][i].rel

\* C6: every emitted FrameSet carries the index as it was before the emission, the
\* emission raises the index by exactly one, and no other step changes the index or
\* the sets already emitted; so the sequence numbers are 0, 1, 2, ... in order of
\* emission, never shared.
C6_SeqNumIncreasing ==
    [][/\ \A s \in DOMAIN emitted : s < seq_num_write_index
       /\ \/ emitted' = emitted /\ seq_num_write_index' = seq_num_write_index
          \/ /\ seq_num_write_index' = seq_num_write_index + 1
             /\ DOMAIN emitted' = DOMAIN emitted \cup {seq_num_write_index}
             /\ \A s \in DOMAIN emitted : emitted'[s] = emitted[s]]_vars

\* three FrameSets went out, one of them a retransmission
C6_Witness ==
    /\ seq_num_write_index = 3 /\ DOMAIN emitted = 0 .. 2
    /\ \E s \in requeued : Range(emitted[s]) \cap Range(emitted[2]) # {}

(***************************************************************************)
(* Properties of closing (specifications SpecClose and SpecCloseLive).     *)
(***************************************************************************)
\* C4 as stated: poll_close returns Ready only in a state where the resend map, buf, the
\* unconnected queue, outgoing_ack and outgoing_nack are all empty, under every
\* FlushStrategy and every interleaving with the receive task.
C4_CloseOnlyDrained ==
    [][(pc # "closed" /\ pc' = "closed") => (IsEmpty(resend') /\ CloseAssertion')]_vars

\* a reliable frame was submitted, poll_close was called, an ACK has arrived for every
\* sequence number still in the resend map, and nothing waits in buf
AllAcksArrived ==
    /\ closing /\ next_id > 0 /\ pc \notin {"closed", "panic"}
    /\ buf = << >>
    /\ \A s \in DOMAIN resend : AckReceived(s)

\* C5 as stated: once the ACKs covering every outstanding sequence number have arrived,
\* with the sink accepting and the writer polled fairly, poll_close eventually returns
\* Ready (or, in a debug build, stops at its assertion), whatever the state of the
\* other queues of the link.
C5_CloseCompletes == AllAcksArrived ~> (pc \in {"closed", "panic"})

(***************************************************************************)
(* Properties of the router (specification SpecRouter).  A FrameSet counts *)
(* as delivered when deliver has run its FrameSet arm, lines 204-218; a    *)
(* call turned away at line 198 delivers nothing.                          *)
(***************************************************************************)
\* the sequence numbers up to the greatest delivered one that were never delivered
Gaps(D) == IF D = {} THEN {} ELSE (0 .. Max(D)) \ D

\* how often x is in the heap
Count(h, x) == Cardinality({i \in DOMAIN h : h[i] = x})

\* C7: after any sequence of FrameSet deliveries, in any order, outgoing_nack is exactly
\* the set of integers in [0, max delivered seq_num] never delivered, and seq_read is
\* one more than the greatest delivered seq_num; after 0, 1, 4 the set is {2,3} with
\* seq_read 5, and after 3 as well it is {2} with seq_read 5.
C7_GapDetection ==
    /\ outgoing_nack = Gaps(delivered)
    /\ seq_read = IF delivered = {} THEN 0 ELSE Max(delivered) + 1
    /\ Deliveries(<<0, 1, 4>>, {}, 0) = [outgoing_nack |-> {2, 3}, seq_read |-> 5]
    /\ Deliveries(<<0, 1, 4, 3>>, {}, 0) = [outgoing_nack |-> {2}, seq_read |-> 5]

\* 0, then 3, then 2: the gap left by 3 is filled in part, out of order
C7_Witness ==
    mid = -1 /\ delivered = {0, 2, 3} /\ outgoing_nack = {1} /\ seq_read = 4

\* C8: seq_read never decreases; the delivery of a FrameSet whose seq_num was delivered
\* before pushes the seq_num onto outgoing_ack once more and changes neither seq_read
\* nor outgoing_nack.
C8_RouterMonotone ==
    [][/\ seq_read' >= seq_read
       /\ (mid = -1 /\ mid' \in delivered) =>
              Count(outgoing_ack', mid') = Count(outgoing_ack, mid') + 1
       /\ (mid \in delivered /\ mid' = -1) =>
              seq_read' = seq_read /\ outgoing_nack' = outgoing_nack]_vars

\* a seq_num delivered twice sits twice in outgoing_ack
C8_Witness ==
    mid = -1 /\ \E s \in delivered : Count(outgoing_ack, s) >= 2 /\ s \notin outgoing_nack

\* C9 as stated: at every instant the writer can observe, between the two locks of
\* deliver included, no sequence number is in outgoing_ack and in outgoing_nack.
C9_AckNackDisjoint == Range(outgoing_ack) \cap outgoing_nack = {}

\* C10 as stated: a FrameSet delivered with seq_num < seq_read is acknowledged but not
\* forwarded on the channel.
C10_LateNotForwarded ==
    [][(mid # -1 /\ mid' = -1 /\ mid < seq_read) =>
           /\ mid \in Range(outgoing_ack) \cup acks_out
           /\ router_rx' = router_rx]_vars

\* C10 amended: a FrameSet delivered with seq_num < seq_read is acknowledged, is taken
\* out of outgoing_nack, leaves seq_read alone, and is forwarded on the channel like
\* any other FrameSet unless the channel is closed.
C10_LateForwarded ==
    [][(mid # -1 /\ mid' = -1 /\ mid < seq_read) =>
           /\ mid \in Range(outgoing_ack) \cup acks_out
           /\ seq_read' = seq_read
           /\ outgoing_nack' = outgoing_nack \ {mid}
           /\ IF rx_closed
              THEN router_rx' = router_rx /\ ~deliver_ret'
              ELSE router_rx' = Append(router_rx, mid) /\ deliver_ret']_vars

\* a FrameSet forwarded after one with a greater seq_num
C10_Witness ==
    mid = -1 /\ \E i \in 1 .. (Len(router_rx) - 1) : router_rx[i + 1] < router_rx[i]

(***************************************************************************)
(* Properties of backpressure and packing (specification Spec).            *)
(***************************************************************************)
\* C11: a poll_ready that returns has run the drain cycle, and returns Pending iff
\* Len(buf) >= Cap; so whenever the last poll_ready returned Ready and start_send has
\* not used it yet, Len(buf) < Cap, also when the drain cycle returned Pending.
C11_ReadyIffBelowCap ==
    [][/\ can_send' => Len(buf') < Cap
       /\ (op = "ready" /\ op' = "none") =>
              /\ upstream' \in {"ready", "pending"}
              /\ can_send' <=> Len(buf') < Cap]_vars

\* poll_ready returned Ready although its drain cycle returned Pending
C11_Witness == pc = "idle" /\ can_send /\ upstream = "pending" /\ Len(buf) < Cap

\* C12 as stated: buf never holds more than Cap frames when start_send is called only
\* after a poll_ready that returned Ready, the frames re-queued from the resend map
\* included.
C12_BufWithinCap == Len(buf) <= Cap

\* the downstream sink is polled at these positions of the drain cycle
SinkPolls == {"nack", "ack", "unconn", "pack"}

\* the frames handed to the sink so far, in FrameSets
SentFrames == UNION {Range(emitted[s]) : s \in DOMAIN emitted}

\* the step hands a NACK, an ACK, an unconnected packet or a FrameSet to the sink, or
\* takes something out of buf, outgoing_ack or the unconnected queue
TakesOrSends ==
    \/ nacks_out' # nacks_out \/ acks_out' # acks_out \/ emitted' # emitted
    \/ unconnected' < unconnected
    \/ Len(outgoing_ack') < Len(outgoing_ack)
    \/ buf' # buf /\ \E f \in Range(buf) : f \notin Range(buf')

\* C13: a packet goes to the sink only in the step of the drain cycle in which the
\* downstream poll_ready returned Ready, one packet for one Ready; a downstream Pending
\* ends the poll at once and takes nothing out of buf or the queues; and every frame
\* submitted is in buf or was handed to the sink in a FrameSet.
C13_SendAfterReady ==
    [][/\ TakesOrSends => (pc \in SinkPolls /\ pc' \in SinkPolls \cup {"check"})
       /\ (pc \in SinkPolls /\ pc' = "idle") =>
              (op' = "none" /\ ~TakesOrSends /\ buf' = buf /\ outgoing_ack' = outgoing_ack)
       /\ nacks_out' # nacks_out => pc = "nack"
       /\ acks_out' # acks_out => pc = "ack"
       /\ unconnected' < unconnected => (pc = "unconn" /\ unconnected' = unconnected - 1)
       /\ emitted' # emitted =>
              (pc = "pack" /\ Cardinality(DOMAIN emitted') = Cardinality(DOMAIN emitted) + 1)
       /\ buf' # buf =>
              \A f \in Range(buf) \ Range(buf') :
                  emitted' # emitted /\ f \in Range(emitted'[seq_num_write_index])
       /\ (buf' # buf \/ emitted' # emitted \/ next_id' # next_id) =>
              \A i \in 1 .. next_id' : \E f \in Range(buf') \cup SentFrames' : f.id = i]_vars

\* the sink went Pending at the packing step with a re-queued frame and a new one in buf
C13_Witness ==
    /\ pc = "idle" /\ upstream = "pending" /\ Len(buf) = 2
    /\ seq_num_write_index = 1

RECURSIVE SumSize(_)
\* the sum of size() over the frames
SumSize(frames) == IF frames = << >> THEN 0 ELSE Head(frames).size + SumSize(Tail(frames))

\* the frames in the opposite order
Reverse(frames) == [i \in 1 .. Len(frames) |-> frames[Len(frames) + 1 - i]]

\* C14: the sizes of the frames of every emitted FrameSet add up to at most
\* Mtu - FRAME_SET_HEADER_SIZE; a packing step takes the frames from the back of buf in
\* order, and what it leaves begins (at the back) with a frame that does not fit the
\* remaining budget.
C14_PackWithinBudget ==
    [][/\ \A s \in DOMAIN emitted : SumSize(emitted[s]) <= Mtu - FRAME_SET_HEADER_SIZE
       /\ emitted' # emitted =>
              LET set == emitted'[seq_num_write_index]
              IN  /\ buf = buf' \o Reverse(set)
                  /\ SumSize(set) <= Mtu - FRAME_SET_HEADER_SIZE
                  /\ buf' # << >> =>
                        SumSize(set) + buf'[Len(buf')].size > Mtu - FRAME_SET_HEADER_SIZE]_vars

\* a FrameSet went out and the frame now at the back of buf did not fit into it
C14_Witness ==
    /\ pc = "check" /\ op # "none" /\ buf # << >>
    /\ \E s \in DOMAIN emitted :
          /\ s = seq_num_write_index - 1
          /\ SumSize(emitted[s]) + buf[Len(buf)].size > Mtu - FRAME_SET_HEADER_SIZE

(***************************************************************************)
(* Properties of the ACK packer (specification SpecCodec).                 *)
(***************************************************************************)
RECURSIVE RecordsSize(_)
\* bytes of the records on the wire: 4 for a Single, 7 for a Range (Record::write)
RecordsSize(recs) ==
    IF recs = << >> THEN 0
    ELSE (IF Head(recs)[1] = Head(recs)[2] THEN 4 ELSE 7) + RecordsSize(Tail(recs))

\* bytes of an ACK or NACK packet: pack id, record count, records
AckSize(recs) == 1 + 2 + RecordsSize(recs)

\* the sequence numbers covered by the records of all the calls so far
CoveredSoFar == UNION {Covered(codec.acks[i]) : i \in DOMAIN codec.acks}

\* the iterator is what is left of the input after some prefix
IsSuffix(rest, q) == Len(rest) <= Len(q) /\ rest = SubSeq(q, Len(q) - Len(rest) + 1, Len(q))

\* C15: for every sorted iterator and every mtu >= 7, each record list returned by
\* extend_from takes at most mtu bytes with its pack id and record count (so the u16
\* budget never went below zero), and what was not packed is still in the iterator.
C15_AckWithinMtu ==
    codec.call = "extend" =>
        /\ \A i \in DOMAIN codec.acks : AckSize(codec.acks[i]) <= codec.mtu
        /\ IsSuffix(codec.sorted_seq_nums, codec.input)
        /\ CoveredSoFar \cup Range(codec.sorted_seq_nums) = Range(codec.input)

\* an ACK that fills mtu to the byte, with items left in the iterator
C15_Witness ==
    /\ codec.call = "extend" /\ codec.sorted_seq_nums # << >>
    /\ \E i \in DOMAIN codec.acks : AckSize(codec.acks[i]) = codec.mtu

\* C16: the records of the calls up to the None cover exactly the input; every call
\* on a non-empty iterator returns at least one record and takes at least one item,
\* and every item taken is covered by the records returned.
C16_AckLossless ==
    [][codec.call = "extend" =>
           /\ codec'.done => (codec'.sorted_seq_nums = << >> /\ CoveredSoFar = Range(codec.input))
           /\ codec.sorted_seq_nums # << >> =>
                 /\ ~codec'.done
                 /\ Len(codec'.acks) = Len(codec.acks) + 1
                 /\ codec'.acks[Len(codec'.acks)] # << >>
                 /\ Len(codec'.sorted_seq_nums) < Len(codec.sorted_seq_nums)
                 /\ Covered(codec'.acks[Len(codec'.acks)]) \cup Range(codec'.sorted_seq_nums)
                        = Range(codec.sorted_seq_nums)]_vars

\* an input that took three calls, the last of them None
C16_Witness ==
    /\ codec.call = "extend" /\ codec.done /\ Len(codec.acks) = 2
    /\ CoveredSoFar = Range(codec.input)

\* the records of q when the budget never binds: one record for each run
RunRecords(q) == ExtendFrom(q, U16 - 1).records

\* C17 as stated: extend_from returns the longest prefix that fits in mtu bytes, so when
\* a call leaves an item in the iterator, the prefix with that item does not fit; and
\* [0,1] with mtu 10 gives [Range(0,1)] and an empty iterator.
C17_LongestPrefix ==
    [][codec.call = "extend" =>
           LET taken == Len(codec.sorted_seq_nums) - Len(codec'.sorted_seq_nums)
           IN  /\ codec'.sorted_seq_nums # << >> =>
                     AckSize(RunRecords(SubSeq(codec.sorted_seq_nums, 1, taken + 1))) > codec.mtu
               /\ (codec.sorted_seq_nums = <<0, 1>> /\ codec.mtu = 10) =>
                     /\ codec'.acks = <<(<<Record(0, 1)>>)>>
                     /\ codec'.sorted_seq_nums = << >>]_vars

\* C17 amended: extend_from returns the records of a prefix of the input that fit in
\* mtu bytes, and stops taking items only when the iterator is empty or fewer than 4
\* bytes of the budget are left; [0,1] with mtu 10 gives [Single(0)] and leaves 1,
\* with mtu 11 it gives [Range(0,1)].
C17_PrefixUntilFourLeft ==
    codec.call = "extend" =>
        /\ IsSuffix(codec.sorted_seq_nums, codec.input)
        /\ \A i \in DOMAIN codec.acks :
              /\ AckSize(codec.acks[i]) <= codec.mtu
              /\ (i < Len(codec.acks) \/ codec.sorted_seq_nums # << >>) =>
                     codec.mtu - AckSize(codec.acks[i]) < 4
        /\ (codec.input = <<0, 1>> /\ codec.acks # << >>) =>
              codec.acks[1] = IF codec.mtu <= 10 THEN <<Record(0, 0)>> ELSE <<Record(0, 1)>>

\* the input 0, 1 with mtu 10: the first call returned Single(0) and 1 is left
C17_Witness ==
    /\ codec.call = "extend" /\ codec.input = <<0, 1>> /\ codec.mtu = 10
    /\ codec.acks = <<(<<Record(0, 0)>>)>> /\ codec.sorted_seq_nums = <<1>>

\* the count of a record as the claim has it: end - start + 1 for a Range, 1 for a Single
ExactCnt(rec) == IF rec[1] = rec[2] THEN 1 ELSE rec[2] - rec[1] + 1

RECURSIVE ExactSum(_, _)
\* the running sum of the counts of the first k records
ExactSum(recs, k) == IF k = 0 THEN 0 ELSE ExactSum(recs, k - 1) + ExactCnt(recs[k])

\* C20 as stated: whatever records the packet carries, reversed Ranges included,
\* Ack::read returns; it returns AckCountExceed exactly when the running sum of the
\* counts exceeds 8192 at some record; the u32 arithmetic never wraps; and an accepted
\* packet covers at most 8192 sequence numbers.
C20_ReadCountsExactly ==
    (codec.call = "read" /\ codec.done) =>
        /\ codec.result \in {"Ok", "AckCountExceed"}
        /\ ~codec.wrapped
        /\ codec.result = "AckCountExceed" <=>
              \E k \in 1 .. Len(codec.records) :
                  ExactSum(codec.records, k) > MAX_ACKNOWLEDGEMENT_PACKETS
        /\ codec.result = "Ok" =>
              Cardinality(Covered(codec.records)) <= MAX_ACKNOWLEDGEMENT_PACKETS

\* the same for the packets whose Ranges all have start <= end
ReadCountsExactlyInOrder ==
    (codec.call = "read" /\ \A i \in DOMAIN codec.records :
                                 codec.records[i][1] <= codec.records[i][2]) =>
        C20_ReadCountsExactly

\* the datagram ends before the optional fields and the declared body do
Truncated(d) ==
    /\ d.r <= 4 /\ d.length_bits \div 8 > 0
    /\ d.remaining < 6 + OptionalFieldBytes(d.r, d.parted) + d.length_bits \div 8

\* C21 as stated: FrameSet::read always returns, a FrameSet or an error value, and on
\* a zero length field or a datagram that ends before the optional fields and the
\* declared body do it returns InvalidPacketLength.
C21_TruncatedIsError ==
    (codec.call = "frame_set" /\ codec.done) =>
        /\ codec.result \in {"Ok", "InvalidPacketLength", "InvalidReliability"}
        /\ (codec.datagram.length_bits = 0 \/ Truncated(codec.datagram)) =>
              codec.result = "InvalidPacketLength"

\* the part of C21 about whole headers: given the six bytes of seq_num, flags and
\* length, a length of less than one byte is answered by InvalidPacketLength
ZeroLengthIsError ==
    (codec.call = "frame_set" /\ codec.done /\ codec.datagram.remaining >= 6
        /\ codec.datagram.length_bits < 8) =>
        codec.result = "InvalidPacketLength"

(***************************************************************************)
(* Properties of the ACK and NACK the writer builds (specification         *)
(* SpecRouter).                                                            *)
(***************************************************************************)
\* no number ends a record while the next number starts another record of the packet
RunPacked(recs) == \A i, j \in DOMAIN recs : i # j => recs[j][1] # recs[i][2] + 1

\* what extend_from is given is in non-decreasing order
NonDecreasing(q) == \A i \in 1 .. (Len(q) - 1) : q[i] <= q[i + 1]

\* C18 as stated: the NACK built by process_outgoing_nack and the ACK built by
\* process_outgoing_ack hold each run of consecutive sequence numbers as one Range
\* record, and both feed extend_from a non-decreasing sequence.
C18_RunPacking ==
    /\ (pc = "nack" /\ strategy.nack) =>
          /\ NonDecreasing(NackIter(outgoing_nack))
          /\ RunPacked(ProcessOutgoingNack(outgoing_nack, Mtu).records)
    /\ (pc = "ack" /\ strategy.ack) =>
          /\ NonDecreasing(outgoing_ack)
          /\ RunPacked(ProcessOutgoingAck(outgoing_ack, Mtu).records)

\* the half of C18 that concerns process_outgoing_ack alone
AckRunPacked ==
    (pc = "ack" /\ strategy.ack) =>
        /\ NonDecreasing(outgoing_ack)
        /\ RunPacked(ProcessOutgoingAck(outgoing_ack, Mtu).records)

(***************************************************************************)
(* Properties of the incoming queues (specification SpecFlood).            *)
(***************************************************************************)
\* q2 is q after a push that displaced the oldest entry if q was full
PushedOnto(q, q2) ==
    /\ q2 # << >>
    /\ q2 = Append(IF Len(q) >= MAX_ACK_BUFFER THEN Tail(q) ELSE q, q2[Len(q2)])
    /\ q2[Len(q2)] = NextRecord(q)

\* the entries of q are in the order they arrived in
ArrivalOrder(q) == \A i \in 1 .. (Len(q) - 1) : Max(q[i + 1]) = Max(q[i]) + 1

\* C19: the incoming queues never hold more than 1024 entries; every packet of the
\* peer is queued, on a full queue in place of the oldest entry; the entries queued are
\* in arrival order, and a drain takes all of them, from the oldest to the newest.
C19_QueuesBounded ==
    [][/\ Len(incoming_ack') <= MAX_ACK_BUFFER
       /\ Len(incoming_nack') <= MAX_ACK_BUFFER
       /\ ArrivalOrder(incoming_ack') /\ ArrivalOrder(incoming_nack')
       /\ events' # events =>
             \/ PushedOnto(incoming_ack, incoming_ack') /\ incoming_nack' = incoming_nack
             \/ PushedOnto(incoming_nack, incoming_nack') /\ incoming_ack' = incoming_ack
             \/ /\ unconnected' # unconnected
                /\ incoming_ack' = incoming_ack /\ incoming_nack' = incoming_nack
       /\ (pc = "absorb" /\ pc' # "absorb") =>
             /\ incoming_ack' = << >> /\ incoming_nack' = << >>
             /\ acked' = acked \cup UNION Range(incoming_ack)
             /\ resend' = AbsorbNacks(AbsorbAcks(resend, incoming_ack), buf, incoming_nack).map
       /\ (pc # "absorb" /\ events' = events) =>
             /\ incoming_ack' = incoming_ack /\ incoming_nack' = incoming_nack]_vars

\* both queues are full, and the oldest ACK and the oldest NACK have been displaced
C19_Witness ==
    /\ Len(incoming_ack) = MAX_ACK_BUFFER /\ incoming_ack[1] # {1}
    /\ Len(incoming_nack) = MAX_ACK_BUFFER /\ incoming_nack[1] # {1}

(***************************************************************************)
(* Properties of the server's dispatcher (specification SpecServer).       *)
(***************************************************************************)
\* how often a occurs in the sequence q
Occurrences(q, a) == Cardinality({i \in DOMAIN q : q[i] = a})

\* the peer map without the addresses in D
RouterWithout(D) == [x \in DOMAIN server.router \ D |-> server.router[x]]

\* C22: a poll first evicts every address on the drop channel (out of the peer map,
\* offline.disconnect called); a packet for a known peer whose channel is gone evicts
\* the peer and yields nothing; a packet for a known peer is appended to its channel
\* and yields no handle; a packet for a peer not in the map, evicted ones included,
\* opens a fresh channel that holds the packet and yields a new handle. Every channel
\* holds its packets in arrival order.
C22_Eviction ==
    [][/\ (server.pc = "idle" /\ server'.pc = "offline") =>
              /\ server'.router = RouterWithout(Range(server.drop_receiver))
              /\ server'.drop_receiver = << >>
              /\ \A a \in 1 .. ServerAddrs :
                     Occurrences(server'.disconnected, a) =
                         Occurrences(server.disconnected, a)
                             + Occurrences(server.drop_receiver, a)
              /\ server'.chans = server.chans
       /\ server'.packs # server.packs =>
              LET a == server'.last.addr
                  n == server'.packs
              IN  /\ n = server.packs + 1
                  /\ (a \in DOMAIN server.router /\ server.chans[server.router[a]].open) =>
                         /\ server'.router = server.router
                         /\ server'.chans =
                                [server.chans EXCEPT ![server.router[a]].sent = Append(@, n)]
                         /\ server'.disconnected = server.disconnected
                         /\ server'.pc = "offline"
                  /\ (a \in DOMAIN server.router /\ ~server.chans[server.router[a]].open) =>
                         /\ server'.router = RouterWithout({a})
                         /\ server'.disconnected = Append(server.disconnected, a)
                         /\ server'.chans = server.chans
                         /\ server'.pc = "offline"
                  /\ a \notin DOMAIN server.router =>
                         /\ Len(server'.chans) = Len(server.chans) + 1
                         /\ server'.chans[Len(server'.chans)] =
                                [addr |-> a, sent |-> <<n>>, open |-> TRUE, told |-> FALSE]
                         /\ server'.router[a] = Len(server'.chans)
                         /\ server'.pc = "idle"
       /\ \A c \in DOMAIN server'.chans :
              /\ \A i \in 1 .. (Len(server'.chans[c].sent) - 1) :
                     server'.chans[c].sent[i] < server'.chans[c].sent[i + 1]
       /\ \A a \in DOMAIN server'.router :
              server'.chans[server'.router[a]].addr = a]_vars

\* a peer was evicted through the drop channel and again after a failed send, and the
\* packet that followed each eviction opened a fresh channel: it has three handles
C22_Witness ==
    /\ server.last.outcome = "new"
    /\ Cardinality({c \in DOMAIN server.chans : server.chans[c].addr = server.last.addr}) = 3
    /\ Occurrences(server.disconnected, server.last.addr) = 2
    /\ server.dropped = 1
    /\ \E c \in DOMAIN server.chans : ~server.chans[c].open

(***************************************************************************)
(* Order of emission (specification Spec).                                 *)
(***************************************************************************)
\* the frame was sent in a FrameSet before: it is in the buffer because it was re-queued
Requeued(f) == f \in SentFrames

\* buf changes by push_front and by pop_back only, so the frame at j was waiting in
\* the buffer when the frame at i < j was pushed
WaitingBehind(i, j) ==
    /\ i \in DOMAIN buf /\ j \in DOMAIN buf /\ i < j
    /\ Requeued(buf[i]) /\ ~Requeued(buf[j])

\* C23: a frame that was waiting in the buffer when a NACK or the stale scan re-queued
\* another one is not emitted in a FrameSet that leaves the re-queued frame in the
\* buffer: the FrameSet of the re-queued frame does not have the larger sequence number
\* (the claim asks for the smaller one).
C23_RequeuedOvertake ==
    [][emitted' # emitted =>
          \A i, j \in DOMAIN buf :
              (WaitingBehind(i, j) /\ buf[j] \in Range(emitted'[seq_num_write_index]))
                  => buf[i] \in Range(emitted'[seq_num_write_index])]_vars

\* the places of the frames sent so far: FrameSet and position in it
Places == {<<s, i>> : s \in DOMAIN emitted, i \in 1 .. MaxFrames}

\* C24: with no frame re-queued, the frames go out in the order of their start_send
\* calls (the ids): of two frames sent the earlier one is in the FrameSet with the
\* smaller sequence number or ahead of the later one in the same FrameSet, every frame
\* sent was submitted before every frame that waits, and the frames that wait are in
\* buf with the earliest at the back.
C24_Fifo ==
    requeued = {} =>
        /\ \A p, q \in Places :
               (/\ p[2] \in DOMAIN emitted[p[1]] /\ q[2] \in DOMAIN emitted[q[1]]
                /\ emitted[p[1]][p[2]].id < emitted[q[1]][q[2]].id)
                   => (p[1] < q[1] \/ (p[1] = q[1] /\ p[2] < q[2]))
        /\ \A f \in SentFrames : \A g \in Range(buf) : f.id < g.id
        /\ \A i, j \in DOMAIN buf : i < j => buf[i].id > buf[j].id

\* two frames waited in buf together and went out in one FrameSet, nothing re-queued
C24_Witness ==
    /\ requeued = {}
    /\ \E s \in DOMAIN emitted : Len(emitted[s]) = 2 /\ emitted[s][1].id = 1
                                  /\ emitted[s][2].id = 2

\* two frames went out in two FrameSets, nothing re-queued
FifoAcrossSets ==
    /\ requeued = {}
    /\ Cardinality(DOMAIN emitted) = 2

(***************************************************************************)
(* The drain cycle beside the router (specification SpecRouterLive).       *)
(***************************************************************************)
\* C25: with the default strategy and a sink that always accepts, a drain cycle that
\* has started comes to its end and poll_flush returns.
C25_DrainTerminates == (pc = "absorb") ~> (pc = "idle")

\* a drain cycle that started with nothing missing comes to its end
DrainOfNoGapTerminates ==
    (pc = "absorb" /\ outgoing_nack = {}) ~> (pc = "idle" \/ outgoing_nack # {})

\* C26: a sequence number in outgoing_nack is named by an emitted NACK or arrives.
C26_GapNacked ==
    \A n \in 0 .. MaxPeerSeq :
        (n \in outgoing_nack) ~> (n \in nacks_out \/ n \notin outgoing_nack)

\* the largest sequence number missing is named by an emitted NACK or arrives
LargestGapNacked ==
    \A n \in 0 .. MaxPeerSeq :
        (n \in outgoing_nack /\ n = Max(outgoing_nack))
            ~> (n \in nacks_out \/ n \notin outgoing_nack)

(***************************************************************************)
(* Waking of the closing writer (specification SpecClose).                 *)
(***************************************************************************)
\* the closing writer returned Pending with waking on and a resend timer registered,
\* and nothing has woken it: it sleeps until the timer fires or the sink wakes it
ParkedOnTimer == pc = "idle" /\ closing /\ forward_waking /\ wake.timer /\ ~wake.notified

\* C27: the writer is never parked on the resend timer while an ACK waits in
\* incoming_ack.
C27_AckWakesWriter == ~(ParkedOnTimer /\ incoming_ack # << >>)

\* an ACK that arrives while the writer is parked on the timer wakes it
AckWakesParked ==
    [][(ParkedOnTimer /\ Len(incoming_ack') > Len(incoming_ack))
          => (wake'.notified /\ ~wake'.timer)]_vars

\* with waking off no timer is taken out of the reactor
WakingOffCancelsNothing ==
    [][(~forward_waking /\ incoming_ack' # incoming_ack) => wake' = wake]_vars

(***************************************************************************)
(* The assertion of poll_ready (specification Spec).                       *)
(***************************************************************************)
\* C28: when try_empty has returned Ready to poll_ready, the buffer is below cap.
C28_AssertValid == (pc = "ret" /\ op = "ready") => Len(buf) < Cap

\* the same for the strategies that select flush_pack
AssertValidWhenPacking == (pc = "ret" /\ op = "ready" /\ strategy.pack) => Len(buf) < Cap

(***************************************************************************)
(* Duplicates in outgoing_ack (specification SpecRouter).                  *)
(***************************************************************************)
\* the sequence numbers a record names
RecordCovers(rec) == rec[1] .. rec[2]

\* C29: the ACK the writer is about to build names no sequence number in two records.
C29_DuplicatesCollapse ==
    (pc = "ack" /\ strategy.ack) =>
        LET recs == ProcessOutgoingAck(outgoing_ack, Mtu).records
        IN  \A i, j \in DOMAIN recs :
                i # j => RecordCovers(recs[i]) \cap RecordCovers(recs[j]) = {}

\* without a duplicate in the heap the records of the ACK are disjoint
DistinctAcksDisjoint ==
    (pc = "ack" /\ strategy.ack /\ \A s \in Range(outgoing_ack) : Count(outgoing_ack, s) = 1) =>
        LET recs == ProcessOutgoingAck(outgoing_ack, Mtu).records
        IN  \A i, j \in DOMAIN recs :
                i # j => RecordCovers(recs[i]) \cap RecordCovers(recs[j]) = {}

(***************************************************************************)
(* Conservation of the reliable frames (specification Spec).               *)
(***************************************************************************)
\* the FrameSets an ACK received names, absorbed or still queued
Received == acked \cup UNION Range(incoming_ack)

\* the frames that went out in a FrameSet an ACK received names
CoveredByAck == UNION {Range(emitted[s]) : s \in DOMAIN emitted \cap Received}

\* the frames the resend map holds
HeldInResend == UNION {Range(resend[s]) : s \in DOMAIN resend}

\* the number of places that hold frames: positions of buf and of the resend entries
RECURSIVE HoldingPlaces(_)
HoldingPlaces(S) == IF S = {} THEN Len(buf)
               ELSE LET s == CHOOSE x \in S : TRUE
                    IN  Len(resend[s]) + HoldingPlaces(S \ {s})

\* every reliable frame sent and not covered by a received ACK is held, and no frame
\* is held twice: there are as many frames held as places that hold one
Conserved ==
    LET held == Range(buf) \cup HeldInResend
    IN  /\ Cardinality(held) = HoldingPlaces(DOMAIN resend)
        /\ \A f \in SentFrames : (f.rel /\ f \notin CoveredByAck) => f \in held

\* C30: a reliable frame accepted by start_send and not covered by a received ACK is
\* held exactly once, in buf or in one entry of the resend map; no frame is held twice.
\* It holds at the start and after every step that touches the buffer, the resend map,
\* the FrameSets sent or the ACKs received.
C30_FrameConservation ==
    /\ Conserved
    /\ [][(\/ buf' # buf \/ resend' # resend \/ emitted' # emitted
           \/ acked' # acked \/ incoming_ack' # incoming_ack) => Conserved']_vars

\* a frame was NACKed and re-queued, the NACK came again, and the frame is held by
\* the entry of its retransmission, no ACK received
C30_Witness ==
    /\ nacked # {}
    /\ \E n \in nacked : NackQueued(n)
    /\ \E s \in DOMAIN resend : \E f \in Range(resend[s]) :
          /\ f.rel /\ f \notin CoveredByAck
          /\ \E s2 \in nacked : s2 < s /\ f \in Range(emitted[s2])

(***************************************************************************)
(* Drop notifications and reconnection (specification SpecServer).         *)
(***************************************************************************)
\* the handle of the channel c was yielded and has not been dropped
HandleHeld(c) == c \in DOMAIN server.chans /\ server.chans[c].open

\* the peer map holds the sender of the channel c
OwnSenderInMap(c) ==
    /\ server.chans[c].addr \in DOMAIN server.router
    /\ server.router[server.chans[c].addr] = c

\* C31: every IO handle yielded and not dropped keeps its own sender in the peer map.
C31_OwnSender == \A c \in DOMAIN server.chans : HandleHeld(c) => OwnSenderInMap(c)

\* a poll removes from the peer map only the peers named on the drop channel
OnlyNamedEvicted ==
    [][(server.pc = "idle" /\ server'.pc = "offline") =>
          DOMAIN server.router \ DOMAIN server'.router \subseteq Range(server.drop_receiver)]_vars

\* as long as no peer has come back, a handle not dropped keeps its sender in the map
FirstHandleKeepsSender ==
    (\A c, d \in DOMAIN server.chans : c # d => server.chans[c].addr # server.chans[d].addr)
        => C31_OwnSender

====
